---- MODULE Spec2Model ----
(***************************************************************************)
(* Model of the Test node state machine of library.js: checkpoints,        *)
(* subtests, the expected-count hint, the liveness timer, finishing and    *)
(* the upward completion notification.  Every action is one top-level call *)
(* (a JavaScript handler runs to completion), with the nested calls it     *)
(* makes composed as operators over the whole tree.                        *)
(***************************************************************************)
EXTENDS Integers, Sequences, FiniteSets, TLC

\* ---- bounds of the model ----
MaxNodes == 3
MaxSteps == 4
MaxLive == 2

\* ---- program constants ----
DEFAULT_TIMEOUT == 5000

\* ---- JavaScript values ----
NULL == "<null>"
UNDEF == "<undefined>"
Truthy(v) == v \notin {NULL, UNDEF, ""}

Ids == 1..MaxNodes
Root == 1

\* inputs of the calls; the root is constructed with a completion callback,
\* subtests are created without a timeout argument
Deltas == {-1, 0, 1}
Reasons == {UNDEF, "x"}
Results == {"true", "false", "fnOk", "fnThrow", "fnThrowFalsy"}
TimeoutArgs == {<<>>}
RootTimeouts == {<<>>, <<0>>}

\* the number of steps of the scenario of one subtest with a body
MaxScenario == 6

VARIABLES nodes, steps
vars == <<nodes, steps>>

Checkpoint(name, passed) ==
    [kind |-> "checkpoint", data |-> name, passed |-> passed, id |-> 0]

Annotation(kind, data) ==
    [kind |-> kind, data |-> data, passed |-> FALSE, id |-> 0]

Subtest(k) ==
    [kind |-> "test", data |-> "t", passed |-> FALSE, id |-> k]

\* ping that schedules a new timeout without clearing the previous one
pingNoClear(S, n) ==
    LET arm == ~S[n].finished /\ S[n].timeout > 0
    IN [S EXCEPT ![n].timer = arm,
                 ![n].timers = @ + (IF arm THEN 1 ELSE 0),
                 ![n].armed = @ + (IF arm THEN 1 ELSE 0)]

\* timer: this._timer holds a timeout that is still scheduled;
\* timers: the number of timeouts of the node that are scheduled;
\* armed: the number of timeouts the node has scheduled so far, which tells
\* the timeout in this._timer from the ones scheduled before it
ping(S, n) ==
    LET cleared == IF S[n].timer THEN S[n].timers - 1 ELSE S[n].timers
        arm == ~S[n].finished /\ S[n].timeout > 0
    IN [S EXCEPT ![n].timer = arm,
                 ![n].timers = cleared + (IF arm THEN 1 ELSE 0),
                 ![n].armed = @ + (IF arm THEN 1 ELSE 0)]

\* a scheduled timeout fires: clearing it afterwards does nothing
fired(S, n) ==
    [S EXCEPT ![n].timers = @ - 1, ![n].timer = FALSE]

\* the state of a node right after its constructor, ping included
Test(par, timeout, cb) ==
    LET t == IF timeout = <<>> THEN DEFAULT_TIMEOUT ELSE timeout[1]
    IN [created |-> TRUE, parent |-> par, hasCb |-> cb, contents |-> <<>>,
        passed |-> 0, failed |-> 0, expected |-> <<>>, total |-> 0,
        pending |-> 0, finished |-> FALSE, finishReason |-> NULL,
        errors |-> 0, timeout |-> t, timer |-> (t > 0),
        timers |-> (IF t > 0 THEN 1 ELSE 0),
        armed |-> (IF t > 0 THEN 1 ELSE 0),
        body |-> "none", cb |-> <<>>, by |-> "none"]

Blank ==
    [created |-> FALSE, parent |-> 0, hasCb |-> FALSE, contents |-> <<>>,
     passed |-> 0, failed |-> 0, expected |-> <<>>, total |-> 0,
     pending |-> 0, finished |-> FALSE, finishReason |-> NULL,
     errors |-> 0, timeout |-> 0, timer |-> FALSE, timers |-> 0, armed |-> 0,
     body |-> "none", cb |-> <<>>, by |-> "none"]

\* error that appends the annotation and does not count it
errorUncounted(S, n, data) ==
    LET S1 == ping(S, n)
    IN [S1 EXCEPT ![n].contents = Append(@, Annotation("error", data))]

error(S, n, data) ==
    LET S1 == ping(S, n)
    IN [S1 EXCEPT ![n].contents = Append(@, Annotation("error", data)),
                  ![n].errors = @ + 1]

\* comment that is dropped on a finished node
commentGated(S, n, data) ==
    IF ~S[n].finished
    THEN LET S1 == ping(S, n)
         IN [S1 EXCEPT ![n].contents = Append(@, Annotation("comment", data))]
    ELSE S

comment(S, n, data) ==
    LET S1 == ping(S, n)
    IN [S1 EXCEPT ![n].contents = Append(@, Annotation("comment", data))]

\* isComplete that forgets the expected count
isCompleteIgnoringExpected(S, n) ==
    /\ S[n].finished
    /\ S[n].pending = 0

isComplete(S, n) ==
    /\ S[n].finished
    /\ S[n].pending = 0
    /\ (S[n].expected = <<>> \/ S[n].expected[1] = S[n].total)

\* isPassed that forgets the error annotations
isPassedIgnoringErrors(S, n) ==
    /\ isComplete(S, n)
    /\ ~Truthy(S[n].finishReason)
    /\ S[n].failed = 0

isPassed(S, n) ==
    /\ isComplete(S, n)
    /\ ~Truthy(S[n].finishReason)
    /\ S[n].failed = 0
    /\ S[n].errors = 0

RECURSIVE _notifyFinish(_, _)
RECURSIVE _subtestFinished(_, _, _, _)

\* _notifyFinish whose callback does not reach the parent
notifyFinishLocal(S, n) ==
    IF S[n].hasCb
    THEN LET call == [reason |-> S[n].finishReason, passed |-> isPassed(S, n),
                      finished |-> S[n].finished, pending |-> S[n].pending,
                      errors |-> S[n].errors, at |-> <<>>]
         IN [S EXCEPT ![n].cb = Append(@, call)]
    ELSE S

\* cb records each invocation of this._clientFinished: its arguments, the
\* node's finished, pending and errors at that moment, and (filled in by
\* Stamp) the step it happened in
_notifyFinish(S, n) ==
    IF S[n].hasCb
    THEN LET call == [reason |-> S[n].finishReason, passed |-> isPassed(S, n),
                      finished |-> S[n].finished, pending |-> S[n].pending,
                      errors |-> S[n].errors, at |-> <<>>]
             S1 == [S EXCEPT ![n].cb = Append(@, call)]
         IN IF S[n].parent = 0
            THEN S1
            ELSE _subtestFinished(S1, S[n].parent, call.reason, call.passed)
    ELSE S

\* _subtestFinished that looks at the reason only
subtestFinishedByReason(S, p, reason, passed) ==
    LET S1 == IF ~Truthy(reason)
              THEN [S EXCEPT ![p].passed = @ + 1]
              ELSE [S EXCEPT ![p].failed = @ + 1]
        S2 == [S1 EXCEPT ![p].pending = @ - 1]
    IN IF S2[p].pending = 0 /\ S2[p].finished
       THEN _notifyFinish(S2, p)
       ELSE S2

\* _subtestFinished that counts every subtest as passed
subtestFinishedLenient(S, p, reason, passed) ==
    LET S1 == [S EXCEPT ![p].passed = @ + 1]
        S2 == [S1 EXCEPT ![p].pending = @ - 1]
    IN IF S2[p].pending = 0 /\ S2[p].finished
       THEN _notifyFinish(S2, p)
       ELSE S2

\* _subtestFinished that never notifies the finished parent
subtestFinishedSilent(S, p, reason, passed) ==
    LET S1 == IF (~Truthy(reason)) /\ passed
              THEN [S EXCEPT ![p].passed = @ + 1]
              ELSE [S EXCEPT ![p].failed = @ + 1]
    IN [S1 EXCEPT ![p].pending = @ - 1]

\* _subtestFinished that wakes the parent up
subtestFinishedPing(S, p, reason, passed) ==
    LET S0 == ping(S, p)
        S1 == IF (~Truthy(reason)) /\ passed
              THEN [S0 EXCEPT ![p].passed = @ + 1]
              ELSE [S0 EXCEPT ![p].failed = @ + 1]
        S2 == [S1 EXCEPT ![p].pending = @ - 1]
    IN IF S2[p].pending = 0 /\ S2[p].finished
       THEN _notifyFinish(S2, p)
       ELSE S2

\* _subtestFinished that counts the subtest in total a second time
subtestFinishedCounted(S, p, reason, passed) ==
    LET S1 == IF (~Truthy(reason)) /\ passed
              THEN [S EXCEPT ![p].passed = @ + 1]
              ELSE [S EXCEPT ![p].failed = @ + 1]
        S2 == [S1 EXCEPT ![p].pending = @ - 1, ![p].total = @ + 1]
    IN IF S2[p].pending = 0 /\ S2[p].finished
       THEN _notifyFinish(S2, p)
       ELSE S2

_subtestFinished(S, p, reason, passed) ==
    LET S1 == IF (~Truthy(reason)) /\ passed
              THEN [S EXCEPT ![p].passed = @ + 1]
              ELSE [S EXCEPT ![p].failed = @ + 1]
        S2 == [S1 EXCEPT ![p].pending = @ - 1]
    IN IF S2[p].pending = 0 /\ S2[p].finished
       THEN _notifyFinish(S2, p)
       ELSE S2

\* the switch of finish without the case of the timeout
abnormalSilent(S, n, reason) ==
    IF Truthy(reason) /\ reason # "timeout"
    THEN CASE reason = "bail" -> error(S, n, "bailed")
           [] OTHER -> error(S, n, "abnormal " \o reason)
    ELSE S

\* the annotation finish synthesizes for an abnormal reason
abnormal(S, n, reason) ==
    IF Truthy(reason)
    THEN CASE reason = "bail" -> error(S, n, "bailed")
           [] reason = "timeout" ->
                error(S, n, "timed out " \o ToString(S[n].timeout))
           [] OTHER -> error(S, n, "abnormal " \o reason)
    ELSE S

\* finish without the check of this.finished
finishUnguarded(S, n, reason) ==
    LET S1 == [S EXCEPT ![n].finished = TRUE]
        S2 == ping(S1, n)
        S3 == [S2 EXCEPT ![n].finishReason = reason]
        S4 == abnormal(S3, n, reason)
    IN IF S4[n].pending = 0 THEN _notifyFinish(S4, n) ELSE S4

\* finish that notifies without waiting for the pending subtests
finishEager(S, n, reason) ==
    IF ~S[n].finished
    THEN LET S1 == [S EXCEPT ![n].finished = TRUE]
             S2 == ping(S1, n)
             S3 == [S2 EXCEPT ![n].finishReason = reason]
             S4 == abnormal(S3, n, reason)
         IN _notifyFinish(S4, n)
    ELSE error(S, n, "extra finish " \o reason)

\* finish that records the reason of an extra attempt
finishOverwrite(S, n, reason) ==
    IF ~S[n].finished
    THEN LET S1 == [S EXCEPT ![n].finished = TRUE]
             S2 == ping(S1, n)
             S3 == [S2 EXCEPT ![n].finishReason = reason]
             S4 == abnormal(S3, n, reason)
         IN IF S4[n].pending = 0 THEN _notifyFinish(S4, n) ELSE S4
    ELSE error([S EXCEPT ![n].finishReason = reason], n,
               "extra finish " \o reason)

finish(S, n, reason) ==
    IF ~S[n].finished
    THEN LET S1 == [S EXCEPT ![n].finished = TRUE]
             S2 == ping(S1, n)
             S3 == [S2 EXCEPT ![n].finishReason = reason]
             S4 == abnormal(S3, n, reason)
         IN IF S4[n].pending = 0 THEN _notifyFinish(S4, n) ELSE S4
    ELSE error(S, n, "extra finish " \o reason)

\* _checkExpected that compares expected with the resolved count
checkExpectedResolved(S, n) ==
    IF S[n].expected # <<>> /\ S[n].expected[1] = S[n].passed + S[n].failed
    THEN finish(S, n, UNDEF)
    ELSE S

_checkExpected(S, n) ==
    IF S[n].expected # <<>> /\ S[n].expected[1] = S[n].total
    THEN finish(S, n, UNDEF)
    ELSE S

\* addExpected that re-evaluates the expected count
addExpectedRecheck(S, n, count) ==
    IF ~S[n].finished
    THEN LET S1 == ping(S, n)
         IN _checkExpected([S1 EXCEPT ![n].expected =
                                IF @ = <<>> THEN <<count>> ELSE <<@[1] + count>>], n)
    ELSE error(S, n, "late expected")

addExpected(S, n, count) ==
    IF ~S[n].finished
    THEN LET S1 == ping(S, n)
         IN IF S1[n].expected = <<>>
            THEN [S1 EXCEPT ![n].expected = <<count>>]
            ELSE [S1 EXCEPT ![n].expected = <<@[1] + count>>]
    ELSE error(S, n, "late expected")

\* the boolean a check's first argument turns into
checkOutcome(result) == result \in {"true", "fnOk"}

\* the value caught from the callable, when it is truthy
checkError(result) == result = "fnThrow"

\* check without the check of this.finished
checkUngated(S, n, result) ==
    LET S1 == ping(S, n)
        r == checkOutcome(result)
        S2 == [S1 EXCEPT ![n].contents = Append(@, Checkpoint("c", r))]
        S3 == IF r THEN [S2 EXCEPT ![n].passed = @ + 1]
                   ELSE [S2 EXCEPT ![n].failed = @ + 1]
        S4 == [S3 EXCEPT ![n].total = @ + 1]
        S5 == IF checkError(result) THEN error(S4, n, "thrown") ELSE S4
    IN _checkExpected(S5, n)

check(S, n, result) ==
    IF ~S[n].finished
    THEN LET S1 == ping(S, n)
             r == checkOutcome(result)
             S2 == [S1 EXCEPT ![n].contents = Append(@, Checkpoint("c", r))]
             S3 == IF r THEN [S2 EXCEPT ![n].passed = @ + 1]
                        ELSE [S2 EXCEPT ![n].failed = @ + 1]
             S4 == [S3 EXCEPT ![n].total = @ + 1]
             S5 == IF checkError(result) THEN error(S4, n, "thrown") ELSE S4
         IN _checkExpected(S5, n)
    ELSE error(S, n, "late checkpoint")

checkReturn(S, n, result) ==
    IF ~S[n].finished
    THEN (IF checkOutcome(result) THEN "true" ELSE "false")
    ELSE UNDEF

Free(S) == {k \in Ids : ~S[k].created}
NewId(S) == CHOOSE k \in Free(S) : \A j \in Free(S) : k <= j

\* run(body): the body is queued with process.nextTick
\* run that calls the body in the calling frame
runNow(S, n) == [S EXCEPT ![n].body = "started"]

run(S, n) == [S EXCEPT ![n].body = "scheduled"]

\* test that does not count the new subtest as pending
testNoPending(S, n, timeout, hasBody) ==
    IF ~S[n].finished
    THEN LET S1 == ping(S, n)
             k == NewId(S)
             S2 == [S1 EXCEPT ![k] = Test(n, timeout, TRUE)]
             S3 == [S2 EXCEPT ![n].contents = Append(@, Subtest(k))]
             S5 == [S3 EXCEPT ![n].total = @ + 1]
             S6 == _checkExpected(S5, n)
         IN IF hasBody THEN run(S6, k) ELSE S6
    ELSE error(S, n, "late subtest")

test(S, n, timeout, hasBody) ==
    IF ~S[n].finished
    THEN LET S1 == ping(S, n)
             k == NewId(S)
             S2 == [S1 EXCEPT ![k] = Test(n, timeout, TRUE)]
             S3 == [S2 EXCEPT ![n].contents = Append(@, Subtest(k))]
             S4 == [S3 EXCEPT ![n].pending = @ + 1]
             S5 == [S4 EXCEPT ![n].total = @ + 1]
             S6 == _checkExpected(S5, n)
         IN IF hasBody THEN run(S6, k) ELSE S6
    ELSE error(S, n, "late subtest")

testReturn(S, n, hasBody) ==
    IF ~S[n].finished /\ ~hasBody THEN ToString(NewId(S)) ELSE UNDEF

\* _onError that finishes before it reports the exception
onErrorFinishFirst(S, n, err) ==
    LET S1 == finish(S, n, "bail")
    IN error(S1, n, err)

_onError(S, n, err) ==
    LET S1 == error(S, n, err)
    IN finish(S1, n, "bail")

\* ---- the state machine ----
Created == {n \in Ids : nodes[n].created}

\* history kept for the properties: by names the step in which a node became
\* finished, at the step <<name, node>> in which a callback was invoked
Stamp(S, name, n) ==
    [k \in Ids |->
        LET a == IF S[k].finished /\ ~nodes[k].finished
                 THEN [S[k] EXCEPT !.by = name]
                 ELSE S[k]
        IN IF Len(a.cb) > Len(nodes[k].cb)
           THEN [a EXCEPT !.cb[Len(a.cb)].at = <<name, ToString(n)>>]
           ELSE a]

\* one call by the test's author, or one callback run by the host
Do(S, name, n) ==
    /\ steps < MaxSteps
    /\ steps' = steps + 1
    /\ nodes' = Stamp(S, name, n)

Init ==
    /\ \E t \in RootTimeouts :
          nodes = [k \in Ids |-> IF k = Root THEN Test(0, t, TRUE) ELSE Blank]
    /\ steps = 0

Ping(n) == Do(ping(nodes, n), "ping", n)

Check(n) ==
    \E result \in Results : Do(check(nodes, n, result), "check", n)

Comment(n) == Do(comment(nodes, n, "note"), "comment", n)

Error(n) == Do(error(nodes, n, "oops"), "error", n)

AddExpected(n) ==
    \E count \in Deltas : Do(addExpected(nodes, n, count), "addExpected", n)

NewTest(n) ==
    \E timeout \in TimeoutArgs, hasBody \in BOOLEAN :
        /\ (nodes[n].finished \/ Free(nodes) # {})
        /\ Do(test(nodes, n, timeout, hasBody), "test", n)

Finish(n) ==
    \E reason \in Reasons : Do(finish(nodes, n, reason), "finish", n)

\* the setTimeout callback scheduled by ping
TimerFire(n) ==
    /\ nodes[n].timers > 0
    /\ Do(finish(fired(nodes, n), n, "timeout"), "timer", n)

\* run called on a node that has no body yet
Run(n) ==
    /\ nodes[n].body = "none"
    /\ Do(run(nodes, n), "run", n)

\* the nextTick callback of run: the body starts
BodyStart(n) ==
    /\ nodes[n].body = "scheduled"
    /\ Do([nodes EXCEPT ![n].body = "started"], "body", n)

\* the domain's error listener, for an exception escaping a started body
OnError(n) ==
    /\ nodes[n].body = "started"
    /\ Do(_onError(nodes, n, "exception"), "onError", n)

Next ==
    \E n \in Created :
        \/ Ping(n)
        \/ Check(n)
        \/ Comment(n)
        \/ Error(n)
        \/ AddExpected(n)
        \/ NewTest(n)
        \/ Finish(n)
        \/ TimerFire(n)
        \/ Run(n)
        \/ BodyStart(n)
        \/ OnError(n)

Spec == Init /\ [][Next]_vars

\* ---- helpers of the properties ----
Has(n, kind, data) ==
    \E i \in DOMAIN nodes[n].contents :
        nodes[n].contents[i].kind = kind /\ nodes[n].contents[i].data = data

Count(S, n, kind) ==
    Cardinality({i \in DOMAIN S[n].contents : S[n].contents[i].kind = kind})

LooseEqNull(v) == v \in {NULL, UNDEF}

\* ---- properties ----

\* C1: the completion callback of every node is invoked at most once, and at
\* the moment it is invoked the node has finished = true and pending = 0.
C1_CallbackAtMostOnce ==
    \A n \in Created :
        /\ Len(nodes[n].cb) <= 1
        /\ \A i \in DOMAIN nodes[n].cb :
              nodes[n].cb[i].finished /\ nodes[n].cb[i].pending = 0

\* the root was notified when its subtest resolved, and a further finish
\* attempt on it was then rejected
C1_Witness ==
    /\ Len(nodes[Root].cb) = 1
    /\ nodes[Root].cb[1].at[2] # ToString(Root)
    /\ \E r \in Reasons : Has(Root, "error", "extra finish " \o r)

Notified(S, n) == S[n].cb # <<>>

Resolved(S, n) == S[n].finished /\ S[n].pending = 0

\* C2: a node that becomes finished while pending > 0 does not invoke its
\* callback in that step; the callback is invoked in exactly the step in
\* which the node comes to be finished with pending = 0; between steps a node
\* has notified if and only if finished = true and pending = 0.
C2_Deferred ==
    \A n \in Created :
        /\ Notified(nodes, n) <=> Resolved(nodes, n)
        /\ Notified(nodes', n) <=> Resolved(nodes', n)
        /\ (~nodes[n].finished /\ nodes'[n].finished /\ nodes'[n].pending > 0)
              => nodes'[n].cb = nodes[n].cb
        /\ (Len(nodes'[n].cb) > Len(nodes[n].cb))
              <=> (Resolved(nodes', n) /\ ~Resolved(nodes, n))

C2_DeferredNotification == [][C2_Deferred]_vars

\* a node finished (by a call or by its timer) while a subtest was pending,
\* and was notified later, in the step of that subtest
C2_Witness ==
    \E n \in Created :
        /\ nodes[n].by \in {"finish", "timer"}
        /\ Len(nodes[n].cb) = 1
        /\ nodes[n].cb[1].at[2] # ToString(n)
        /\ nodes[n].total = 1

\* every reason a finish call is made with: by the author, the timer or the
\* error listener
AllReasons == Reasons \cup {"timeout", "bail"}

\* a finish call on an already finished node only appends the annotation of
\* the extra attempt
C3_Rejected(S) ==
    \A n \in {k \in Ids : S[k].created /\ S[k].finished} :
        \A reason \in AllReasons :
            finish(S, n, reason) =
                [S EXCEPT ![n].errors = @ + 1,
                          ![n].contents =
                              Append(@, Annotation("error", "extra finish " \o reason))]

\* (the initial state has no finished node; every other reachable state is the
\* second state of a step)
\* C3: finished goes from false to true only, finishReason is fixed by the
\* first finish, and a finish call on a finished node leaves finished,
\* finishReason, passed, failed, total, pending and expected unchanged, does
\* not invoke the callback, and increases errors by exactly one.
C3_Step ==
    /\ \A n \in Created :
          nodes[n].finished =>
              /\ nodes'[n].finished
              /\ nodes'[n].finishReason = nodes[n].finishReason
    /\ C3_Rejected(nodes')

C3_FinishOnce == [][C3_Step]_vars

\* finish("x") twice on one node
C3_Witness ==
    \E n \in Created :
        /\ nodes[n].finishReason = "x"
        /\ nodes[n].contents = <<Annotation("error", "abnormal x"),
                                 Annotation("error", "extra finish x")>>
        /\ nodes[n].errors = 2
        /\ Len(nodes[n].cb) = 1

\* the contents a check call appends
CheckEntries(result) ==
    IF checkError(result)
    THEN <<Checkpoint("c", FALSE), Annotation("error", "thrown")>>
    ELSE <<Checkpoint("c", checkOutcome(result))>>

\* C4: on an unfinished node whose expected is greater than total, the check
\* or test call that brings total to exactly expected finishes the node in
\* that call, with no reason (finishReason == null) and no synthesized error
\* annotation; for a test call although the new subtest is still pending.
C4_AutoFinish ==
    \A n \in Created :
        (/\ ~nodes[n].finished
         /\ nodes[n].expected # <<>>
         /\ nodes[n].expected[1] > nodes[n].total)
        =>
        /\ \A result \in Results :
              LET S == check(nodes, n, result)
              IN S[n].total = S[n].expected[1] =>
                    /\ S[n].finished
                    /\ LooseEqNull(S[n].finishReason)
                    /\ S[n].contents = nodes[n].contents \o CheckEntries(result)
                    /\ S[n].errors = nodes[n].errors + Count(S, n, "error")
                                        - Count(nodes, n, "error")
        /\ Free(nodes) # {} =>
              \A timeout \in TimeoutArgs, hasBody \in BOOLEAN :
                  LET S == test(nodes, n, timeout, hasBody)
                      k == NewId(nodes)
                  IN S[n].total = S[n].expected[1] =>
                        /\ S[n].finished
                        /\ LooseEqNull(S[n].finishReason)
                        /\ S[n].contents = Append(nodes[n].contents, Subtest(k))
                        /\ S[n].errors = nodes[n].errors
                        /\ S[n].pending = nodes[n].pending + 1
                        /\ S[n].cb = nodes[n].cb
                        /\ ~S[k].finished

\* a node was finished by the test call that created its still pending
\* subtest
C4_Witness ==
    \E n \in Created :
        /\ nodes[n].by = "test"
        /\ LooseEqNull(nodes[n].finishReason)
        /\ nodes[n].pending > 0
        /\ nodes[n].cb = <<>>
        /\ nodes[n].total = nodes[n].expected[1]
        /\ nodes[n].errors = 0

\* the value addExpected leaves in expected
Added(e, count) == IF e = <<>> THEN <<count>> ELSE <<e[1] + count>>

\* C5 as stated: an addExpected call on an unfinished node that leaves
\* expected non-null and equal to total finishes the node in that call.
C5_Step ==
    \A n \in Created :
        (/\ ~nodes[n].finished
         /\ nodes'[n].expected # nodes[n].expected
         /\ nodes'[n].expected = <<nodes'[n].total>>)
        => nodes'[n].finished

C5_Original == [][C5_Step]_vars

\* C5 amended: an addExpected call on an unfinished node reschedules the
\* node's timer (ping) and otherwise only changes expected; it never finishes
\* the node, also when it leaves expected equal to total.
C5_AddExpectedOnly ==
    \A n \in Created :
        ~nodes[n].finished =>
            \A count \in Deltas :
                /\ addExpected(nodes, n, count) =
                      [ping(nodes, n) EXCEPT ![n].expected = Added(@, count)]
                /\ ~addExpected(nodes, n, count)[n].finished
                /\ addExpected(nodes, n, count)[n].cb = nodes[n].cb

\* an unfinished node whose expected equals its total, after a check
C5_Witness ==
    \E n \in Created :
        /\ ~nodes[n].finished
        /\ nodes[n].total > 0
        /\ nodes[n].expected = <<nodes[n].total>>

\* the tree after a rejected call on n: one more error annotation, nothing else
Rejected(S, n, data) ==
    [S EXCEPT ![n].errors = @ + 1,
              ![n].contents = Append(@, Annotation("error", data))]

\* C6: a check, test or addExpected call on a finished node changes no
\* counter, creates no checkpoint and no child node, appends exactly one
\* error annotation, and check returns undefined and test no node.
C6_RejectedAfterFinish ==
    \A n \in Created :
        nodes[n].finished =>
            /\ \A result \in Results :
                  /\ check(nodes, n, result) = Rejected(nodes, n, "late checkpoint")
                  /\ checkReturn(nodes, n, result) = UNDEF
            /\ \A timeout \in TimeoutArgs, hasBody \in BOOLEAN :
                  /\ test(nodes, n, timeout, hasBody) = Rejected(nodes, n, "late subtest")
                  /\ testReturn(nodes, n, hasBody) = UNDEF
            /\ \A count \in Deltas :
                  addExpected(nodes, n, count) = Rejected(nodes, n, "late expected")

\* a finished node on which a check, a test and an addExpected call were
\* rejected
C6_Witness ==
    \E n \in Created :
        /\ nodes[n].finished
        /\ Has(n, "error", "late checkpoint")
        /\ Has(n, "error", "late subtest")
        /\ Has(n, "error", "late expected")
        /\ nodes[n].errors = 3
        /\ nodes[n].total = 0

\* C7: total = passed + failed + pending for every node, and on a node
\* without subtests total and passed + failed are the number of checkpoints.
C7_TotalAccounting ==
    \A n \in Created :
        /\ nodes[n].total = nodes[n].passed + nodes[n].failed + nodes[n].pending
        /\ nodes[n].pending = 0 => nodes[n].total = nodes[n].passed + nodes[n].failed
        /\ Count(nodes, n, "test") = 0 =>
              /\ nodes[n].total = Count(nodes, n, "checkpoint")
              /\ nodes[n].passed + nodes[n].failed = Count(nodes, n, "checkpoint")

\* a node with a resolved subtest, a pending one and a checkpoint
C7_Witness ==
    \E n \in Created :
        /\ nodes[n].total = 3
        /\ nodes[n].pending = 1
        /\ Count(nodes, n, "checkpoint") = 1
        /\ Count(nodes, n, "test") = 2

\* the subtests in the contents of n that have not notified
Unresolved(S, n) ==
    {i \in DOMAIN S[n].contents :
        /\ S[n].contents[i].kind = "test"
        /\ S[S[n].contents[i].id].cb = <<>>}

PendingCounted(S) ==
    \A n \in {k \in Ids : S[k].created} :
        /\ S[n].pending >= 0
        /\ S[n].pending = Cardinality(Unresolved(S, n))

\* (the initial state has pending = 0 and no contents; every other reachable
\* state is the second state of a step)
\* C8: pending >= 0 and pending is the number of subtests in contents that
\* have not notified; a subtest's notification decrements the parent's
\* pending by one and increments exactly one of its passed and failed by one.
C8_Step ==
    /\ PendingCounted(nodes')
    /\ \A c \in Created :
          (nodes[c].parent # 0 /\ Len(nodes'[c].cb) > Len(nodes[c].cb)) =>
              LET p == nodes[c].parent
              IN /\ nodes'[p].pending = nodes[p].pending - 1
                 /\ \/ /\ nodes'[p].passed = nodes[p].passed + 1
                       /\ nodes'[p].failed = nodes[p].failed
                    \/ /\ nodes'[p].passed = nodes[p].passed
                       /\ nodes'[p].failed = nodes[p].failed + 1

C8_PendingCount == [][C8_Step]_vars

\* a parent with one subtest resolved as passed and one still pending
C8_Witness ==
    \E n \in Created :
        /\ nodes[n].pending = 1
        /\ nodes[n].passed = 1
        /\ Count(nodes, n, "test") = 2

Mismatch(S, n) ==
    /\ S[n].finished
    /\ S[n].expected # <<>>
    /\ S[n].expected[1] # S[n].total

\* C10: a node finished while expected is non-null and different from total
\* is never complete: the mismatch stays, isComplete() and isPassed() are
\* false from then on, and its callback receives passed = false.
C10_Step ==
    \A n \in Created :
        /\ Mismatch(nodes, n) => Mismatch(nodes', n)
        /\ \A S \in {nodes, nodes'} :
              Mismatch(S, n) =>
                  /\ ~isComplete(S, n)
                  /\ ~isPassed(S, n)
                  /\ \A i \in DOMAIN S[n].cb : ~S[n].cb[i].passed

C10_NeverComplete == [][C10_Step]_vars

\* a node without failure, error or reason whose callback got passed = false
\* because total missed expected
C10_Witness ==
    \E n \in Created :
        /\ Mismatch(nodes, n)
        /\ nodes[n].failed = 0
        /\ nodes[n].errors = 0
        /\ LooseEqNull(nodes[n].finishReason)
        /\ Len(nodes[n].cb) = 1
        /\ ~nodes[n].cb[1].passed

\* ---- the state machine with timers that fire whenever they are due ----

\* the setTimeout callback, not counted: the host runs it when it is due
LiveTimer(n) ==
    /\ nodes[n].timers > 0
    /\ \E S \in {finish(fired(nodes, n), n, "timeout")} :
          nodes' = Stamp(S, "timer", n)
    /\ steps' = steps

\* the calls of the test's author, at most MaxLive of them
LiveCall(n) ==
    /\ steps < MaxLive
    /\ (Check(n) \/ Comment(n) \/ NewTest(n) \/ Finish(n))

LiveCalls == \E n \in Created : LiveCall(n)

LiveTimers == \E n \in Created : LiveTimer(n)

LiveNext == LiveCalls \/ LiveTimers

\* scheduled timeouts fire: as long as one is scheduled, one of them fires
LiveSpec ==
    /\ Init
    /\ [][LiveNext]_vars
    /\ WF_vars(LiveTimers)

\* no call is left: every activity-producing operation has occurred
Quiet == steps = MaxLive

\* the effect of a timer firing on the node it finishes
C11_Fires ==
    \A n \in Created :
        (nodes'[n].by = "timer" /\ nodes[n].by = "none") =>
            /\ nodes'[n].finishReason = "timeout"
            /\ nodes'[n].errors = nodes[n].errors + 1
            /\ nodes'[n].contents =
                  Append(nodes[n].contents,
                         Annotation("error",
                                    "timed out " \o ToString(nodes[n].timeout)))

TimedOut(n) ==
    /\ nodes[n].finished
    /\ nodes[n].finishReason = "timeout"
    /\ nodes[n].pending = 0
    /\ Len(nodes[n].cb) = 1
    /\ nodes[n].cb[1].reason = "timeout"
    /\ ~nodes[n].cb[1].passed

\* every node with a timeout that no call or exception finished has timed out
AllTimedOut ==
    \A n \in Created :
        (nodes[n].timeout > 0 /\ nodes[n].by \in {"none", "timer"}) => TimedOut(n)

\* C11: a node with timeout > 0 on which no activity occurs any more
\* eventually finishes with finishReason "timeout" and is notified with
\* passed = false once its pending is 0; the firing adds exactly one error
\* annotation, naming the timeout, and adds one to errors.
C11_TimeoutFinishes ==
    /\ [][C11_Fires]_vars
    /\ Quiet ~> AllTimedOut

\* a node that timed out while its subtest was pending, and was notified
\* after the subtest had timed out as well
C11_Witness ==
    \E n \in Created :
        /\ TimedOut(n)
        /\ nodes[n].errors = 1
        /\ nodes[n].total = 1
        /\ nodes[n].cb[1].at[2] # ToString(n)

\* the annotation of an intercepted exception
Exception == Annotation("error", "exception")

\* the step is the error listener of n
Intercepted(n) ==
    Cardinality({i \in DOMAIN nodes'[n].contents : nodes'[n].contents[i] = Exception})
        > Cardinality({i \in DOMAIN nodes[n].contents : nodes[n].contents[i] = Exception})

\* C12 as stated: whenever an exception is intercepted the node is finished
\* afterwards with finishReason "bail", the exception annotation followed by
\* the synthesized bail annotation.
C12_Step ==
    \A n \in Created :
        Intercepted(n) =>
            /\ nodes'[n].finished
            /\ nodes'[n].finishReason = "bail"
            /\ nodes'[n].contents =
                  nodes[n].contents \o <<Exception, Annotation("error", "bailed")>>

C12_Original == [][C12_Step]_vars

\* C12 amended: the handler appends the exception annotation and then calls
\* finish("bail"); on an unfinished node the node is finished with
\* finishReason "bail" and the bail annotation follows the exception; on a
\* node that is already finished finishReason stays and the annotation of the
\* rejected finish follows the exception.
C12_AmendedStep ==
    \A n \in Created :
        Intercepted(n) =>
            /\ nodes'[n].finished
            /\ nodes'[n].errors = nodes[n].errors + 2
            /\ IF nodes[n].finished
               THEN /\ nodes'[n].finishReason = nodes[n].finishReason
                    /\ nodes'[n].cb = nodes[n].cb
                    /\ nodes'[n].contents =
                          nodes[n].contents \o
                              <<Exception, Annotation("error", "extra finish bail")>>
               ELSE /\ nodes'[n].finishReason = "bail"
                    /\ nodes'[n].contents =
                          nodes[n].contents \o
                              <<Exception, Annotation("error", "bailed")>>

C12_BailOrRejected == [][C12_AmendedStep]_vars

\* a subtest bailed by an exception of its body
C12_Witness ==
    \E n \in Created :
        /\ nodes[n].by = "onError"
        /\ nodes[n].finishReason = "bail"
        /\ nodes[n].contents = <<Exception, Annotation("error", "bailed")>>
        /\ nodes[n].parent # 0
        /\ nodes[nodes[n].parent].failed = 1

\* C13: a body passed to test or run does not start in the call: when the
\* call returns the body is only scheduled and the new subtest has total 0,
\* empty contents and is unfinished; a body starts only in a later step of
\* its own, from the scheduled state.
C13_Step ==
    /\ \A n \in Created :
          /\ (nodes'[n].body = "started" /\ nodes[n].body # "started")
                => (nodes[n].body = "scheduled" /\ nodes'[n] = [nodes[n] EXCEPT !.body = "started"])
          /\ run(nodes, n)[n].body # "started"
    /\ \A k \in Ids :
          (~nodes[k].created /\ nodes'[k].created) =>
              /\ nodes'[k].body \in {"none", "scheduled"}
              /\ nodes'[k].total = 0
              /\ nodes'[k].contents = <<>>
              /\ ~nodes'[k].finished
    /\ \A n \in Created :
          (~nodes[n].finished /\ Free(nodes) # {}) =>
              \A timeout \in TimeoutArgs :
                  test(nodes, n, timeout, TRUE)[NewId(nodes)].body = "scheduled"

C13_BodyDeferred == [][C13_Step]_vars

\* the parent was finished by its caller after the test call and before the
\* body of the subtest started
C13_Witness ==
    \E n \in Created :
        /\ nodes[n].body = "scheduled"
        /\ nodes[n].total = 0
        /\ nodes[n].contents = <<>>
        /\ nodes[n].parent # 0
        /\ nodes[nodes[n].parent].by = "finish"

\* C14: a check on an unfinished node with a callable that throws returns
\* false, appends a failed checkpoint, adds one to failed and to total, and
\* appends one error annotation with the thrown value after the checkpoint,
\* whatever the value thrown.
C14_ThrowRecorded ==
    \A n \in Created :
        ~nodes[n].finished =>
            \A result \in {"fnThrow", "fnThrowFalsy"} :
                LET S == check(nodes, n, result)
                    len == Len(nodes[n].contents)
                IN /\ checkReturn(nodes, n, result) = "false"
                   /\ S[n].failed = nodes[n].failed + 1
                   /\ S[n].total = nodes[n].total + 1
                   /\ S[n].passed = nodes[n].passed
                   /\ S[n].errors = nodes[n].errors + 1
                   /\ S[n].contents =
                         nodes[n].contents \o
                             <<Checkpoint("c", FALSE), Annotation("error", "thrown")>>

\* the step invokes the completion callback of c
Notifies(c) == Len(nodes'[c].cb) = Len(nodes[c].cb) + 1

\* the arguments of that invocation
Reported(c) == nodes'[c].cb[Len(nodes'[c].cb)]

\* C15: the completion callback receives the node's finishReason and
\* isPassed() as they are when it is invoked, and the parent's handler adds
\* one to passed only if the reason is falsy and the passed flag is true, and
\* one to failed otherwise, so a node finished with a truthy reason counts as
\* failed in its parent.
C15_Step ==
    \A c \in Created :
        Notifies(c) =>
            /\ Reported(c).reason = nodes'[c].finishReason
            /\ Reported(c).passed = isPassed(nodes', c)
            /\ nodes[c].parent # 0 =>
                  LET p == nodes[c].parent
                      ok == ~Truthy(Reported(c).reason) /\ Reported(c).passed
                  IN /\ nodes'[p].pending = nodes[p].pending - 1
                     /\ nodes'[p].passed = nodes[p].passed + (IF ok THEN 1 ELSE 0)
                     /\ nodes'[p].failed = nodes[p].failed + (IF ok THEN 0 ELSE 1)
                     /\ Truthy(nodes'[c].finishReason) =>
                           nodes'[p].failed = nodes[p].failed + 1

Sub == 2

\* the timeout argument of root.test: left out, or 0 to disable the timer
ScnTimeouts == {<<>>, <<0>>}

ScnDo(S, name, n) ==
    /\ steps < MaxScenario
    /\ steps' = steps + 1
    /\ nodes' = Stamp(S, name, n)

\* the caller may announce the subtest with root.addExpected(1)
ScnExpect ==
    /\ ~nodes[Sub].created
    /\ ~nodes[Root].finished
    /\ nodes[Root].expected = <<>>
    /\ ScnDo(addExpected(nodes, Root, 1), "addExpected", Root)

\* root.test("sub", body)
ScnTest ==
    /\ ~nodes[Sub].created
    /\ ~nodes[Root].finished
    /\ \E timeout \in ScnTimeouts : ScnDo(test(nodes, Root, timeout, TRUE), "test", Root)

\* the nextTick callback of run enters the body
ScnBodyStart ==
    /\ nodes[Sub].body = "scheduled"
    /\ ScnDo([nodes EXCEPT ![Sub].body = "started"], "body", Sub)

\* the body calls addExpected(1) on the subtest
ScnAddExpected ==
    /\ nodes[Sub].body = "started"
    /\ ScnDo([addExpected(nodes, Sub, 1) EXCEPT ![Sub].body = "added"], "addExpected", Sub)

\* the body calls check(true, "x") on the subtest
ScnCheck ==
    /\ nodes[Sub].body = "added"
    /\ ScnDo([check(nodes, Sub, "true") EXCEPT ![Sub].body = "checked"], "check", Sub)

\* the caller of root.test calls root.finish()
ScnFinish ==
    /\ nodes[Sub].created
    /\ ~nodes[Root].finished
    /\ ScnDo(finish(nodes, Root, UNDEF), "finish", Root)

\* the setTimeout callback of the root or of the subtest
ScnTimer ==
    \E n \in Created :
        /\ nodes[n].timers > 0
        /\ ScnDo(finish(fired(nodes, n), n, "timeout"), "timer", n)

ScnNext ==
    \/ ScnExpect
    \/ ScnTest
    \/ ScnBodyStart
    \/ ScnAddExpected
    \/ ScnCheck
    \/ ScnFinish
    \/ ScnTimer

ScnSpec == Init /\ [][ScnNext]_vars

\* the subtest resolved normally, by the auto-finish of its check
SubResolved == nodes[Sub].created /\ nodes[Sub].by = "check"

\* C16 as stated: once the subtest resolves the root has passed = 1 and the
\* root's completion callback has been invoked with (null, true).
C16_Original ==
    SubResolved =>
        /\ nodes[Root].passed = 1
        /\ Len(nodes[Root].cb) = 1
        /\ LooseEqNull(nodes[Root].cb[1].reason)
        /\ nodes[Root].cb[1].passed

\* C16 amended: once the subtest resolves the root has passed = 1, total = 1
\* and pending = 0; the root's completion callback is invoked only once the
\* root itself is finished: with (undefined, true) when root.finish() is
\* called, before or after the subtest resolves, or when the root finished
\* itself in root.test because its expected count was 1; with
\* ("timeout", false) when the root timed out; and not at all while the root
\* is unfinished.
C16_RootAfterSubtest ==
    SubResolved =>
        /\ nodes[Sub].cb = <<[reason |-> UNDEF, passed |-> TRUE, finished |-> TRUE,
                              pending |-> 0, errors |-> 0,
                              at |-> <<"check", ToString(Sub)>>]>>
        /\ nodes[Root].passed = 1
        /\ nodes[Root].failed = 0
        /\ nodes[Root].total = 1
        /\ nodes[Root].pending = 0
        /\ Len(nodes[Root].cb) = (IF nodes[Root].finished THEN 1 ELSE 0)
        /\ nodes[Root].by \in {"finish", "test"} =>
              (nodes[Root].cb[1].reason = UNDEF /\ nodes[Root].cb[1].passed)
        /\ nodes[Root].by = "timer" =>
              (nodes[Root].cb[1].reason = "timeout" /\ ~nodes[Root].cb[1].passed)

\* the root was finished by its caller before the body ran, and notified with
\* (undefined, true) by the check of the body
C16_Witness ==
    /\ SubResolved
    /\ nodes[Root].by = "finish"
    /\ nodes[Root].passed = 1
    /\ nodes[Root].cb[1].reason = UNDEF
    /\ nodes[Root].cb[1].passed
    /\ nodes[Root].cb[1].at = <<"check", ToString(Sub)>>

\* the entries a step appended to the contents of n
Appended(n) ==
    SubSeq(nodes'[n].contents, Len(nodes[n].contents) + 1, Len(nodes'[n].contents))

\* the step leaves every counter and the finish state of n alone
Frozen(n) ==
    /\ nodes'[n].passed = nodes[n].passed
    /\ nodes'[n].failed = nodes[n].failed
    /\ nodes'[n].total = nodes[n].total
    /\ nodes'[n].pending = nodes[n].pending
    /\ nodes'[n].expected = nodes[n].expected
    /\ nodes'[n].finished = nodes[n].finished
    /\ nodes'[n].finishReason = nodes[n].finishReason
    /\ nodes'[n].cb = nodes[n].cb
    /\ isComplete(nodes', n) = isComplete(nodes, n)

C17_Step ==
    \A n \in Created :
        /\ Resolved(nodes, n) =>
              /\ Frozen(n)
              /\ Len(nodes'[n].contents) >= Len(nodes[n].contents)
              /\ SubSeq(nodes'[n].contents, 1, Len(nodes[n].contents)) = nodes[n].contents
              /\ \A i \in DOMAIN Appended(n) :
                    Appended(n)[i].kind \in {"comment", "error"}
              /\ nodes'[n].errors =
                    nodes[n].errors +
                        Cardinality({i \in DOMAIN Appended(n) : Appended(n)[i].kind = "error"})
              /\ isPassed(nodes', n) => isPassed(nodes, n)
        /\ LET S == comment(nodes, n, "note")
           IN /\ S[n].contents = Append(nodes[n].contents, Annotation("comment", "note"))
              /\ S[n].errors = nodes[n].errors
              /\ S[n].passed = nodes[n].passed /\ S[n].failed = nodes[n].failed
              /\ S[n].total = nodes[n].total /\ S[n].pending = nodes[n].pending
        /\ LET S == error(nodes, n, "oops")
           IN /\ S[n].contents = Append(nodes[n].contents, Annotation("error", "oops"))
              /\ S[n].errors = nodes[n].errors + 1
              /\ S[n].passed = nodes[n].passed /\ S[n].failed = nodes[n].failed
              /\ S[n].total = nodes[n].total /\ S[n].pending = nodes[n].pending

\* C17: once a node is finished with pending = 0 its passed, failed, total,
\* pending, expected, finished and finishReason never change and isComplete()
\* keeps its value; later steps only append comment and error annotations;
\* comment and error are accepted in every state, comment changes no
\* counter, error adds one to errors, so isPassed() may go from true to
\* false and never from false to true.
C17_ReadOnlyOnceResolved == [][C17_Step]_vars

\* a node notified with passed = true that then took an error and a comment
C17_Witness ==
    \E n \in Created :
        /\ Resolved(nodes, n)
        /\ Len(nodes[n].cb) = 1
        /\ nodes[n].cb[1].passed
        /\ nodes[n].cb[1].errors = 0
        /\ nodes[n].contents =
              <<Annotation("error", "oops"), Annotation("comment", "note")>>
        /\ ~isPassed(nodes, n)
        /\ isComplete(nodes, n)

\* C18: a node has at most one timer scheduled, and only while it is
\* unfinished with timeout > 0; a node with timeout <= 0 never finishes with
\* reason "timeout"; a finished node has no timer, so the timer never fires
\* on a finished node and never adds the annotation of a rejected finish.
C18_SingleTimer ==
    \A n \in Created :
        /\ nodes[n].timers \in {0, 1}
        /\ nodes[n].timer <=> nodes[n].timers = 1
        /\ nodes[n].timers > 0 => (~nodes[n].finished /\ nodes[n].timeout > 0)
        /\ nodes[n].finished => nodes[n].timers = 0
        /\ nodes[n].timeout <= 0 =>
              (nodes[n].finishReason # "timeout" /\ nodes[n].by # "timer")
        /\ nodes[n].by = "timer" <=> nodes[n].finishReason = "timeout"
        /\ ~Has(n, "error", "extra finish timeout")
        /\ nodes[n].finishReason = "timeout" =>
              Cardinality({i \in DOMAIN nodes[n].contents :
                  nodes[n].contents[i] =
                      Annotation("error", "timed out " \o ToString(nodes[n].timeout))}) = 1

\* a node finished by its caller, its timer cancelled, beside a node that
\* timed out
C18_Witness ==
    \E n, m \in Created :
        /\ nodes[n].by = "finish"
        /\ nodes[n].timeout > 0
        /\ nodes[n].timers = 0
        /\ nodes[m].by = "timer"
        /\ nodes[m].errors = 1

\* the state of n when it was notified, and since
PassedWhenNotified(n) ==
    /\ nodes[n].finished
    /\ nodes[n].pending = 0
    /\ Len(nodes[n].cb) = 1
    /\ nodes[n].cb[1].passed
    /\ ~Truthy(nodes[n].cb[1].reason)
    /\ nodes[n].cb[1].errors = 0
    /\ nodes[n].failed = 0
    /\ (nodes[n].expected = <<>> \/ nodes[n].expected[1] = nodes[n].total)

AllDone ==
    \A n \in Created :
        /\ nodes[n].finished
        /\ nodes[n].pending = 0
        /\ Len(nodes[n].cb) = 1

\* a finished node with an unresolved subtest has not been notified
WaitsForSubtests ==
    \A n \in Created :
        (nodes[n].finished /\ nodes[n].pending > 0) => nodes[n].cb = <<>>

\* C20: when every node has timeout > 0 and the calls stop, every node
\* eventually finishes, every pending reaches 0 and the root's callback is
\* invoked exactly once; and a finished parent, also one that timed out, is
\* not notified while one of its subtests is unresolved.
C20_TreeResolves ==
    /\ (nodes[Root].timeout > 0) => <>[]AllDone
    /\ []WaitsForSubtests

\* the root timed out first and was notified when its subtest timed out
C20_Witness ==
    /\ AllDone
    /\ nodes[Root].by = "timer"
    /\ \E c \in Created :
          /\ nodes[c].parent = Root
          /\ nodes[c].by = "timer"
          /\ nodes[Root].cb[1].at = <<"timer", ToString(c)>>

RECURSIVE AncestorsOf(_, _)
\* the nodes above n in the tree
AncestorsOf(S, n) ==
    IF S[n].parent = 0
    THEN {}
    ELSE {S[n].parent} \cup AncestorsOf(S, S[n].parent)

Changed(k) == nodes'[k] # nodes[k]

\* the step constructed k as a subtest of n
NewChild(k, n) ==
    /\ ~nodes[k].created
    /\ \E timeout \in TimeoutArgs, body \in {"none", "scheduled"} :
          nodes'[k] = [Test(n, timeout, TRUE) EXCEPT !.body = body]

\* the step changed p only as the resolution of one of its subtests does:
\* one more in passed or in failed, one less in pending, and the callback of
\* p invoked if that leaves the finished p with pending 0
ByResolution(p) ==
    /\ \E c \in Created : nodes[c].parent = p /\ Notifies(c)
    /\ nodes'[p].pending = nodes[p].pending - 1
    /\ \/ nodes'[p].passed = nodes[p].passed + 1 /\ nodes'[p].failed = nodes[p].failed
       \/ nodes'[p].failed = nodes[p].failed + 1 /\ nodes'[p].passed = nodes[p].passed
    /\ Notifies(p) <=> (nodes[p].finished /\ nodes'[p].pending = 0)
    /\ nodes'[p].cb # nodes[p].cb => Notifies(p)
    /\ nodes'[p] = [nodes[p] EXCEPT !.passed = nodes'[p].passed,
                                   !.failed = nodes'[p].failed,
                                   !.pending = nodes'[p].pending,
                                   !.cb = nodes'[p].cb]

C21_Step ==
    (nodes' # nodes) =>
        \E n \in Created :
            \A k \in Ids \ {n} :
                Changed(k) =>
                    \/ NewChild(k, n)
                    \/ /\ k \in AncestorsOf(nodes, n)
                       /\ ByResolution(k)

\* C21: a step on a node changes no sibling and no descendant, and changes an
\* ancestor only through the chain of resolutions: a notifying subtest adds
\* one to its parent's passed or failed, takes one from its pending and may
\* trigger the parent's notification, nothing else; the parent's timer is not
\* rescheduled; a new subtest is the only other node a step touches.
C21_OwnNodeOnly == [][C21_Step]_vars

\* one of two subtests resolved: the root counted it and kept the timeout it
\* scheduled in its second test call, the other subtest is as constructed
C21_Witness ==
    \E c, d \in Created :
        /\ c # d
        /\ nodes[c].parent = Root
        /\ nodes[d].parent = Root
        /\ Resolved(nodes, c)
        /\ nodes[c].cb # <<>>
        /\ nodes[Root].passed + nodes[Root].failed = 1
        /\ nodes[Root].pending = 1
        /\ nodes[Root].armed = 3
        /\ nodes[d] = Test(Root, <<>>, TRUE)

\* the counters of every node agree with its contents
CountersAgree ==
    \A n \in Created :
        /\ nodes[n].errors = Count(nodes, n, "error")
        /\ nodes[n].total = Count(nodes, n, "checkpoint") + Count(nodes, n, "test")
        /\ nodes[n].pending <= Count(nodes, n, "test")
        /\ \A i \in DOMAIN nodes[n].contents :
              nodes[n].contents[i].kind = "test" =>
                  /\ nodes[nodes[n].contents[i].id].created
                  /\ nodes[nodes[n].contents[i].id].parent = n

\* a finish() without a reason on an unfinished node appends nothing
NormalFinishSilent ==
    \A n \in Created :
        ~nodes[n].finished =>
            \A k \in Ids :
                /\ finish(nodes, n, UNDEF)[k].contents = nodes[k].contents
                /\ finish(nodes, n, UNDEF)[k].errors = nodes[k].errors

\* the step leaves the contents of every node as a prefix of the new ones
AppendOnly ==
    \A n \in Ids :
        /\ Len(nodes'[n].contents) >= Len(nodes[n].contents)
        /\ SubSeq(nodes'[n].contents, 1, Len(nodes[n].contents)) = nodes[n].contents

\* C22: contents is append-only, errors equals the number of error
\* annotations in contents, whoever added them, total equals the number of
\* checkpoints plus the number of subtests in contents, and a finish without
\* a reason appends nothing.
C22_ContentsAndCounters ==
    /\ [](CountersAgree /\ NormalFinishSilent)
    /\ [][AppendOnly]_vars

\* a node with one checkpoint and three error annotations: of its abnormal
\* finish, of a second finish and of a check after it was finished
C22_Witness ==
    \E n \in Created :
        /\ nodes[n].total = 1
        /\ nodes[n].errors = 3
        /\ Count(nodes, n, "checkpoint") = 1
        /\ Has(n, "error", "abnormal x")
        /\ \E r \in Reasons : Has(n, "error", "extra finish " \o r)
        /\ nodes[n].contents[Len(nodes[n].contents)] # Annotation("error", "extra finish x")
        /\ nodes[n].contents[Len(nodes[n].contents)] # Annotation("error", "extra finish " \o UNDEF)
        /\ nodes[n].contents[Len(nodes[n].contents)] # Annotation("error", "abnormal x")

====
